---- MODULE Spec2Model ----
(***************************************************************************)
(* TopologyManager of AutomatedMonitoring/NetworkMonitor                    *)
(* (modules/topology_manager.py): the interval-gated update cycle           *)
(* (clear, discover L2, discover L3, merge, diff, record last_update), the  *)
(* networkx graphs it keeps, and the queries over the published graph.      *)
(*                                                                         *)
(* A networkx Graph is modelled by its node insertion order (nodes, a       *)
(* sequence without repetition) and its edge attribute dicts (edges, a      *)
(* function from the unordered node pair {u, v} to the attribute dict).     *)
(* The probes (_get_lldp_neighbors, ...) are the external data source: the  *)
(* records they return are inputs, drawn from ProbeMenu.                    *)
(***************************************************************************)
EXTENDS Integers, Sequences, FiniteSets

VARIABLES
    topology,           \* self.topology: the published graph object (contents)
    layer2_topology,    \* self.layer2_topology
    layer3_topology,    \* self.layer3_topology
    history,            \* self.history: list of change records
    last_update,        \* self.last_update
    now,                \* time.time()
    pc,                 \* position of the update_topology call
    current_time,       \* update_topology's local current_time
    previous_topology,  \* update_topology's local previous_topology
    held,               \* contents, at return, of the graph the caller got back
    log,                \* logger.error calls of the cycle in flight / last cycle
    raw,                \* the _add_link calls of the cycle, in call order
    observable,         \* contents self.topology had during the cycle
    result,             \* outcome of the query made after the last call
    probed,             \* what the probes answered in the cycle in flight
    second,             \* a second caller's update_topology invocation
    alert_objects,      \* the Alert objects created, in creation order
    active_alerts,      \* AlertManager.active_alerts: id -> Alert, in dict order
    alert_history       \* AlertManager.alert_history: list of Alert

vars == <<topology, layer2_topology, layer3_topology, history, last_update,
          now, pc, current_time, previous_topology, held, log, raw, observable,
          result, probed, second, alert_objects, active_alerts,
          alert_history>>

(***************************************************************************)
(* Bounds                                                                  *)
(***************************************************************************)
\* config['update_interval']; the clock starts one interval after 0, as
\* time.time() is far beyond any interval when the first call is made
UpdateInterval == 2
\* the clock stops here
MaxTime == 4
\* the histories queried: the most cycles of a run, and the time by which
\* they are over
MaxCycles == 3
MaxHistoryTime == 6

(***************************************************************************)
(* LinkType, LayerType                                                     *)
(***************************************************************************)
PHYSICAL == "physical"
LOGICAL == "logical"
L2 == "layer2"
L3 == "layer3"

\* self.nodes.values(): the devices probed, in dict order
Devices == <<"A", "B", "C">>
Nodes == {Devices[i] : i \in DOMAIN Devices}

(***************************************************************************)
(* networkx.Graph                                                          *)
(***************************************************************************)
NoEdges == [e \in {} |-> 0]
EmptyGraph == [nodes |-> <<>>, edges |-> NoEdges]

NodeSet(G) == {G.nodes[i] : i \in DOMAIN G.nodes}

\* position of node n in G's insertion order
Pos(G, n) == CHOOSE i \in DOMAIN G.nodes : G.nodes[i] = n

\* G.add_node(n)
AddNode(G, n) ==
    IF n \in NodeSet(G) THEN G ELSE [G EXCEPT !.nodes = Append(@, n)]

\* dict.update
DictUpdate(old, new) ==
    [k \in (DOMAIN old) \cup (DOMAIN new) |->
        IF k \in DOMAIN new THEN new[k] ELSE old[k]]

\* G.add_edge(u, v, **data): both endpoints are added, u first; the edge's
\* attribute dict is created or updated
AddEdge(G, u, v, data) ==
    LET G1 == AddNode(AddNode(G, u), v)
        key == {u, v}
        old == IF key \in DOMAIN G.edges THEN G.edges[key] ELSE NoEdges
    IN  [G1 EXCEPT !.edges =
            [e \in (DOMAIN G.edges) \cup {key} |->
                IF e = key THEN DictUpdate(old, data) ELSE G.edges[e]]]

\* G.has_edge / G.get_edge_data(u, v)
HasEdge(G, u, v) == {u, v} \in DOMAIN G.edges
GetEdgeData(G, u, v) == G.edges[{u, v}]

\* G.edges(): each edge once, as (n, nbr) with n the endpoint that comes
\* first in the node order (EdgeView iterates the nodes in order and skips
\* the neighbours already seen)
EdgeTuple(G, e) ==
    LET u == CHOOSE x \in e : \A y \in e : Pos(G, x) <= Pos(G, y)
        v == IF Cardinality(e) = 1 THEN u ELSE CHOOSE y \in e : y # u
    IN  <<u, v>>

\* an edge view that lists every edge from both of its ends
Edges_FromBothEnds(G) ==
    UNION {{EdgeTuple(G, e), <<EdgeTuple(G, e)[2], EdgeTuple(G, e)[1]>>} :
            e \in DOMAIN G.edges}

Edges(G) == {EdgeTuple(G, e) : e \in DOMAIN G.edges}

\* G.edges() as a list, by first endpoint in node order; the order among the
\* edges of one first endpoint (networkx: adjacency insertion order) has no
\* effect on what the model keeps of a graph
RECURSIVE SetToSeqBy(_, _)
SetToSeqBy(S, G) ==
    IF S = {} THEN <<>>
    ELSE LET t == CHOOSE x \in S : \A y \in S :
                    \/ Pos(G, x[1]) < Pos(G, y[1])
                    \/ Pos(G, x[1]) = Pos(G, y[1]) /\ Pos(G, x[2]) <= Pos(G, y[2])
         IN  <<t>> \o SetToSeqBy(S \ {t}, G)

EdgeList(G) == SetToSeqBy(Edges(G), G)

\* G.add_nodes_from(H.nodes(data=True)), from position i of H's node order
RECURSIVE AddNodesFrom(_, _, _)
AddNodesFrom(G, H, i) ==
    IF i > Len(H.nodes) THEN G
    ELSE AddNodesFrom(AddNode(G, H.nodes[i]), H, i + 1)

\* G.add_edges_from(H.edges(data=True)), over the list es of H's edges
RECURSIVE AddEdgesFrom(_, _, _)
AddEdgesFrom(G, H, es) ==
    IF es = <<>> THEN G
    ELSE LET e == Head(es)
         IN  AddEdgesFrom(AddEdge(G, e[1], e[2], GetEdgeData(H, e[1], e[2])),
                          H, Tail(es))

(***************************************************************************)
(* _add_link                                                               *)
(***************************************************************************)
\* the cycle's working state: the two layer graphs, the _add_link calls made
\* so far and the errors logged so far
Work(l2, l3, r, lg) == [l2 |-> l2, l3 |-> l3, raw |-> r, log |-> lg]

LinkData(link, t) ==
    [link_type |-> link.link_type,
     layer |-> link.layer,
     source_interface |-> link.source_interface,
     target_interface |-> link.target_interface,
     timestamp |-> t]

\* _add_link(source, target, link_type, layer, source_interface,
\* target_interface) at time t
AddLink(w, link, t) ==
    LET w1 == [w EXCEPT !.raw = Append(@, link)]
    IN  IF link.layer = L2
        THEN [w1 EXCEPT !.l2 = AddEdge(@, link.source, link.target, LinkData(link, t))]
        ELSE IF link.layer = L3
        THEN [w1 EXCEPT !.l3 = AddEdge(@, link.source, link.target, LinkData(link, t))]
        ELSE w1

Link(s, d, lt, ly, si, ti) ==
    [source |-> s, target |-> d, link_type |-> lt, layer |-> ly,
     source_interface |-> si, target_interface |-> ti]

(***************************************************************************)
(* The probes: _get_lldp_neighbors, _get_cdp_neighbors, _get_stp_info,      *)
(* _get_routing_table.  A probe returns a list of records or raises.        *)
(***************************************************************************)
Returns(recs) == [raised |-> FALSE, recs |-> recs]
Raises == [raised |-> TRUE, recs |-> <<>>]

Neighbor(ip, li, ri) ==
    [remote_ip |-> ip, local_interface |-> li, remote_interface |-> ri]
Port(st, br, lp, rp) ==
    [state |-> st, neighbor_bridge |-> br, local_port |-> lp, remote_port |-> rp]
Route(ty, net, if) == [type |-> ty, network |-> net, interface |-> if]

\* what the probe of protocol p may answer for device d
ProbeMenu(p, d) ==
    {Returns(<<>>)} \cup
    CASE p = "lldp" /\ d = "A" ->
            {Raises, Returns(<<Neighbor("B", "eth0", "eth1")>>)}
      [] p = "lldp" /\ d = "B" ->
            {Returns(<<Neighbor("C", "eth2", "eth3")>>)}
      [] p = "cdp" /\ d = "A" ->
            {Returns(<<Neighbor("B", "eth4", "eth5")>>)}
      [] p = "cdp" /\ d = "B" ->
            {Returns(<<Neighbor("A", "eth1", "eth0")>>)}
      [] p = "stp" /\ d = "C" ->
            {Returns(<<Port("forwarding", "B", "eth3", "eth2")>>),
             Returns(<<Port("blocking", "B", "eth3", "eth2")>>)}
      [] p = "routing" /\ d = "A" ->
            {Returns(<<Route("connected", "C", "ge0")>>),
             Returns(<<Route("connected", "B", "ge1")>>),
             Returns(<<Route("static", "C", "ge0")>>)}
      [] OTHER -> {}

\* the answers of one protocol's probes, one per device
ProbeAnswers(p) ==
    {f \in [DOMAIN Devices -> UNION {ProbeMenu(p, Devices[i]) : i \in DOMAIN Devices}] :
        \A i \in DOMAIN Devices : f[i] \in ProbeMenu(p, Devices[i])}

(***************************************************************************)
(* _discover_lldp_topology .. _discover_routing_topology                   *)
(***************************************************************************)
\* a filter that lets every record pass
Accepted_EveryRecord(p, r) == TRUE

\* the record passes the protocol's filter
Accepted(p, r) ==
    CASE p = "stp" -> r.state = "forwarding"
      [] p = "routing" -> r.type = "connected"
      [] OTHER -> TRUE

\* the _add_link arguments the protocol makes of a record of device d
LinkOf(p, d, r) ==
    CASE p = "stp" ->
            Link(d, r.neighbor_bridge, PHYSICAL, L2, r.local_port, r.remote_port)
      [] p = "routing" ->
            Link(d, r.network, LOGICAL, L3, r.interface, "N/A")
      [] OTHER ->
            Link(d, r.remote_ip, PHYSICAL, L2, r.local_interface, r.remote_interface)

\* for neighbor in neighbors: ... self._add_link(...)
RECURSIVE AddRecords(_, _, _, _, _)
AddRecords(w, p, d, recs, t) ==
    IF recs = <<>> THEN w
    ELSE LET r == Head(recs)
             w1 == IF Accepted(p, r) THEN AddLink(w, LinkOf(p, d, r), t) ELSE w
         IN  AddRecords(w1, p, d, Tail(recs), t)

LogError(w, what, d) == [w EXCEPT !.log = @ \cup {<<what, d>>}]

\* the device loop with the try around the loop instead of inside it: the
\* first probe that raises ends the protocol's discovery
RECURSIVE DiscoverProtocol_AbortsOnRaise(_, _, _, _, _)
DiscoverProtocol_AbortsOnRaise(w, p, f, i, t) ==
    IF i > Len(Devices) THEN w
    ELSE IF f[i].raised THEN LogError(w, p, Devices[i])
    ELSE DiscoverProtocol_AbortsOnRaise(
            AddRecords(w, p, Devices[i], f[i].recs, t), p, f, i + 1, t)

\* for device in self.nodes.values(): try: ... except Exception: logger.error
RECURSIVE DiscoverProtocol(_, _, _, _, _)
DiscoverProtocol(w, p, f, i, t) ==
    IF i > Len(Devices) THEN w
    ELSE LET d == Devices[i]
             w1 == IF f[i].raised THEN LogError(w, p, d)
                   ELSE AddRecords(w, p, d, f[i].recs, t)
         IN  DiscoverProtocol(w1, p, f, i + 1, t)


(***************************************************************************)
(* _merge_topologies, _merge_duplicate_links, _merge_edge_data              *)
(***************************************************************************)
\* the result of a step that may raise
Done(v) == [ok |-> TRUE, value |-> v]
Raised(v) == [ok |-> FALSE, value |-> v]

\* self.topology.add_nodes_from(layer.nodes(data=True))
\* self.topology.add_edges_from(layer.edges(data=True))
AddLayer(G, layer) == AddEdgesFrom(AddNodesFrom(G, layer, 1), layer, EdgeList(layer))

\* _merge_edge_data(edges): edges is what get_edge_data returned, which for a
\* Graph is the attribute dict of the one edge; the loop subscripts each of
\* its values (an enum member, a string, a float) with 'link_type', a
\* TypeError, so it returns only for an empty dict
MergeEdgeData(edges) ==
    IF DOMAIN edges = {}
    THEN Done([link_types |-> {}, layers |-> {}, interfaces |-> {}, metrics |-> NoEdges])
    ELSE Raised(edges)

\* the second loop of _merge_duplicate_links over the list dups
RECURSIVE MergeEach(_, _)
MergeEach(G, dups) ==
    IF dups = <<>> THEN Done(G)
    ELSE LET e == Head(dups)
             m == MergeEdgeData(GetEdgeData(G, e[1], e[2]))
         IN  IF ~m.ok THEN Raised(G)
             ELSE MergeEach(
                    [G EXCEPT !.edges =
                        [k \in DOMAIN G.edges |->
                            IF k = {e[1], e[2]} THEN m.value ELSE G.edges[k]]],
                    Tail(dups))

\* a merge that removes the duplicated edges before it merges their data,
\* so that they are gone when the merge raises
MergeDuplicateLinks_RemovesFirst(G) ==
    LET dups == SelectSeq(EdgeList(G),
                    LAMBDA e : Cardinality(DOMAIN GetEdgeData(G, e[1], e[2])) > 1)
        gone == {{dups[i][1], dups[i][2]} : i \in DOMAIN dups}
    IN  IF dups = <<>> THEN Done(G)
        ELSE Raised([G EXCEPT !.edges =
                        [k \in DOMAIN G.edges \ gone |-> G.edges[k]]])

\* _merge_duplicate_links: an edge counts as duplicated when get_edge_data
\* returns more than one entry
MergeDuplicateLinks(G) ==
    LET dups == SelectSeq(EdgeList(G),
                    LAMBDA e : Cardinality(DOMAIN GetEdgeData(G, e[1], e[2])) > 1)
    IN  MergeEach(G, dups)

(***************************************************************************)
(* _detect_topology_changes                                                *)
(***************************************************************************)
\* a diff that takes the node differences the wrong way round
Changes_NodesSwapped(cur, prev, t) ==
    LET current_edges == Edges(cur)
        previous_edges == Edges(prev)
    IN  [timestamp |-> t,
         added_nodes |-> NodeSet(prev) \ NodeSet(cur),
         removed_nodes |-> NodeSet(cur) \ NodeSet(prev),
         added_links |-> current_edges \ previous_edges,
         removed_links |-> previous_edges \ current_edges,
         modified_links |-> {}]

\* the lists of a change record are built from sets, in no specified order:
\* they are modelled as sets
Changes(cur, prev, t) ==
    LET current_edges == Edges(cur)
        previous_edges == Edges(prev)
        common_edges == current_edges \cap previous_edges
    IN  [timestamp |-> t,
         added_nodes |-> NodeSet(cur) \ NodeSet(prev),
         removed_nodes |-> NodeSet(prev) \ NodeSet(cur),
         added_links |-> current_edges \ previous_edges,
         removed_links |-> previous_edges \ current_edges,
         modified_links |->
            {[edge |-> e,
              previous |-> GetEdgeData(prev, e[1], e[2]),
              current |-> GetEdgeData(cur, e[1], e[2])] :
                e \in {x \in common_edges :
                        GetEdgeData(cur, x[1], x[2]) # GetEdgeData(prev, x[1], x[2])}}]

\* any(changes.values()): a value is true when it is a non-zero number or a
\* non-empty list
AnyValues(c) ==
    \/ c.timestamp # 0
    \/ c.added_nodes # {}
    \/ c.removed_nodes # {}
    \/ c.added_links # {}
    \/ c.removed_links # {}
    \/ c.modified_links # {}

\* the record put at the head of the list instead of its end
DetectTopologyChanges_Prepends(hist, cur, prev, t) ==
    LET changes == Changes(cur, prev, t)
    IN  IF AnyValues(changes) THEN <<changes>> \o hist ELSE hist

DetectTopologyChanges(hist, cur, prev, t) ==
    LET changes == Changes(cur, prev, t)
    IN  IF AnyValues(changes) THEN Append(hist, changes) ELSE hist

(***************************************************************************)
(* Queries: get_path                                                       *)
(***************************************************************************)
NoResult == [op |-> "none", args |-> <<>>, raised |-> "", value |-> <<>>]
Returned(v) == [raised |-> "", value |-> v]
Raising(exc) == [raised |-> exc, value |-> <<>>]

Adjacent(G, u, v) == u # v /\ {u, v} \in DOMAIN G.edges

\* the simple paths of G from s to t, as node sequences ([s] when s = t)
SimplePaths(G, s, t) ==
    {p \in UNION {[1..n -> NodeSet(G)] : n \in 1..Cardinality(NodeSet(G))} :
        /\ p[1] = s
        /\ p[Len(p)] = t
        /\ \A i, j \in DOMAIN p : p[i] = p[j] => i = j
        /\ \A i \in 1..(Len(p) - 1) : Adjacent(G, p[i], p[i + 1])}

\* a path search that answers with the first path it finds, shortest or not
ShortestPath_AnySimplePath(G, s, t) ==
    IF s \notin NodeSet(G) \/ t \notin NodeSet(G) THEN {Raising("NodeNotFound")}
    ELSE IF SimplePaths(G, s, t) = {} THEN {Raising("NetworkXNoPath")}
    ELSE {Returned(p) : p \in SimplePaths(G, s, t)}

\* nx.shortest_path(G, source, target): NodeNotFound when an endpoint is not
\* a node of G, NetworkXNoPath when no path joins them, else one of the
\* paths with the fewest hops
ShortestPath(G, s, t) ==
    IF s \notin NodeSet(G) \/ t \notin NodeSet(G) THEN {Raising("NodeNotFound")}
    ELSE LET ps == SimplePaths(G, s, t)
         IN  IF ps = {} THEN {Raising("NetworkXNoPath")}
             ELSE {Returned(p) : p \in {q \in ps : \A r \in ps : Len(q) <= Len(r)}}

\* get_path: only NetworkXNoPath is caught, and answered with []
GetPath(G, s, t) ==
    {IF r.raised = "NetworkXNoPath" THEN Returned(<<>>) ELSE r :
        r \in ShortestPath(G, s, t)}

(***************************************************************************)
(* Queries: get_redundant_paths, get_critical_links                        *)
(***************************************************************************)
\* the lists that hold every element of S once
Listings(S) ==
    {q \in [1..Cardinality(S) -> S] : \A i, j \in DOMAIN q : q[i] = q[j] => i = j}

\* list(nx.all_simple_paths(G, source, target)): NodeNotFound when an
\* endpoint is not a node of G; else the simple paths, each once, in the
\* order of the depth-first search (the model keeps no adjacency order: any
\* order).  For source = target networkx yields nothing up to 3.1 and the
\* one-node path from 3.2 on; the repository pins no version.
\* the depth-first search of _all_simple_paths_graph from the path visited:
\* each neighbour of its last node that is not on it either ends a path
\* (the target: yielded, not expanded) or extends the search
RECURSIVE DfsPaths(_, _, _)
DfsPaths(G, visited, t) ==
    LET last == visited[Len(visited)]
        children == {c \in NodeSet(G) :
                        /\ Adjacent(G, last, c)
                        /\ \A i \in DOMAIN visited : visited[i] # c}
    IN  UNION {IF c = t THEN {Append(visited, c)}
               ELSE DfsPaths(G, Append(visited, c), t) : c \in children}

\* a search that lists only the paths with the fewest hops
AllSimplePaths_ShortestOnly(G, s, t) ==
    IF s \notin NodeSet(G) \/ t \notin NodeSet(G) THEN {Raising("NodeNotFound")}
    ELSE IF s = t THEN {Returned(<<>>), Returned(<< <<s>> >>)}
    ELSE {Returned(q) :
            q \in Listings({p \in DfsPaths(G, <<s>>, t) :
                                \A r \in DfsPaths(G, <<s>>, t) : Len(p) <= Len(r)})}

AllSimplePaths(G, s, t) ==
    IF s \notin NodeSet(G) \/ t \notin NodeSet(G) THEN {Raising("NodeNotFound")}
    ELSE IF s = t THEN {Returned(<<>>), Returned(<< <<s>> >>)}
    ELSE {Returned(q) : q \in Listings(DfsPaths(G, <<s>>, t))}

\* get_redundant_paths: whatever is raised is caught and answered with []
GetRedundantPaths(G, s, t) ==
    {IF r.raised # "" THEN Returned(<<>>) ELSE r : r \in AllSimplePaths(G, s, t)}

\* the edge between u and v lies on a cycle of G: a simple path joins u and
\* v through a third node
OnCycle(G, u, v) == \E p \in SimplePaths(G, u, v) : Len(p) > 2

\* a bridge search that reports every edge
Bridges_EveryEdge(G) == EdgeList(G)

\* list(nx.bridges(G)): the edges of G.edges(), in that order, that are in
\* no chain of the chain decomposition, i.e. on no cycle
Bridges(G) == SelectSeq(EdgeList(G), LAMBDA e : ~OnCycle(G, e[1], e[2]))

\* get_critical_links: whatever is raised is caught and answered with [];
\* nx.bridges raises nothing on an undirected Graph
GetCriticalLinks(G) == Returned(Bridges(G))

(***************************************************************************)
(* Queries: get_topology_changes, export_topology                          *)
(***************************************************************************)
\* a time-range filter that leaves out the records stamped end_time
GetTopologyChanges_EndExclusive(hist, start_time, end_time) ==
    Returned(SelectSeq(hist, LAMBDA change :
                start_time <= change.timestamp /\ change.timestamp < end_time))

\* get_topology_changes: the list comprehension over self.history
GetTopologyChanges(hist, start_time, end_time) ==
    Returned(SelectSeq(hist, LAMBDA change :
                start_time <= change.timestamp /\ change.timestamp <= end_time))

\* Python's None
None == "None"

\* nx.node_link_data(G): the nodes in node order and the edges of G.edges()
\* with their attributes
NodeLinkData(G) ==
    [directed |-> FALSE,
     multigraph |-> FALSE,
     nodes |-> G.nodes,
     links |-> [i \in DOMAIN EdgeList(G) |->
                    [source |-> EdgeList(G)[i][1],
                     target |-> EdgeList(G)[i][2],
                     data |-> GetEdgeData(G, EdgeList(G)[i][1], EdgeList(G)[i][2])]]]

\* an export without the try: the ValueError reaches the caller
ExportTopology_Raises(G, format) ==
    IF format = "json" THEN Returned(<<NodeLinkData(G)>>)
    ELSE IF format = "graphml" THEN Returned(<<[generate_graphml |-> G]>>)
    ELSE Raising("ValueError")

\* export_topology: nx.generate_graphml returns a generator, nothing of it
\* runs in the call; the ValueError of the else branch is caught and
\* answered with None.  The value is the one-element list of the object
\* returned.
ExportTopology(G, format) ==
    IF format = "json" THEN Returned(<<NodeLinkData(G)>>)
    ELSE IF format = "graphml" THEN Returned(<<[generate_graphml |-> G]>>)
    ELSE Returned(<<None>>)

(***************************************************************************)
(* update_topology, one action per statement                               *)
(***************************************************************************)
NotHeld == [got |-> FALSE, graph |-> EmptyGraph]

\* no probe has answered yet
NoProbes == [p \in {} |-> 0]
\* the answers f of protocol p's probes, added to those recorded in pr
Probed(pr, p, f) ==
    [q \in (DOMAIN pr) \cup {p} |-> IF q = p THEN f ELSE pr[q]]

\* the second caller has made no call
NoSecond == [pc |-> "idle", calls |-> 0, current_time |-> 0,
             previous_topology |-> EmptyGraph]
Holds(G) == [got |-> TRUE, graph |-> G]

Init ==
    /\ topology = EmptyGraph
    /\ layer2_topology = EmptyGraph
    /\ layer3_topology = EmptyGraph
    /\ history = <<>>
    /\ last_update = 0
    /\ now = UpdateInterval
    /\ pc = "idle"
    /\ current_time = 0
    /\ previous_topology = EmptyGraph
    /\ held = NotHeld
    /\ log = {}
    /\ raw = <<>>
    /\ observable = {}
    /\ result = NoResult
    /\ probed = NoProbes
    /\ second = NoSecond
    /\ alert_objects = <<>>
    /\ active_alerts = <<>>
    /\ alert_history = <<>>

\* the gate with the last publish left out of the comparison
Gated_IgnoresLastUpdate(t) == t < UpdateInterval

\* the gate of update_topology
Gated(t) == t - last_update < UpdateInterval

\* lines 66-68: the call is gated and returns self.topology
GatedReturn ==
    /\ pc = "idle"
    /\ Gated(now)
    /\ current_time' = now
    /\ held' = Holds(topology)
    /\ pc' = "returned"
    /\ UNCHANGED <<alert_objects, active_alerts, alert_history,
                   probed, second, result, topology, layer2_topology,
                   layer3_topology, history, last_update, now,
                   previous_topology, log, raw, observable>>

\* lines 66-72: the call is not gated and copies the published graph
BeginUpdate ==
    /\ pc = "idle"
    /\ ~Gated(now)
    /\ current_time' = now
    /\ previous_topology' = topology
    /\ log' = {}
    /\ raw' = <<>>
    /\ observable' = {topology}
    /\ pc' = "clear"
    /\ UNCHANGED <<alert_objects, active_alerts, alert_history,
                   probed, second, result, topology, layer2_topology,
                   layer3_topology, history, last_update, now, held>>

\* lines 75-77
ClearGraphs ==
    /\ pc = "clear"
    /\ topology' = EmptyGraph
    /\ layer2_topology' = EmptyGraph
    /\ layer3_topology' = EmptyGraph
    /\ observable' = observable \cup {topology'}
    /\ pc' = "lldp"
    /\ UNCHANGED <<alert_objects, active_alerts, alert_history,
                   probed, second, result, history, last_update, now,
                   current_time, previous_topology, held, log, raw>>

\* one _discover_<p>_topology call with the probes answering f
Discover(p, f, next, missing) ==
    LET w == DiscoverProtocol(Work(layer2_topology, layer3_topology, raw, log),
                              p, f, 1, now)
    IN  /\ layer2_topology' = w.l2
        /\ layer3_topology' = w.l3
        /\ raw' = w.raw
        /\ log' = w.log \cup missing
        /\ probed' = Probed(probed, p, f)
        /\ pc' = next
        /\ UNCHANGED <<alert_objects, active_alerts, alert_history,
                       second, result, topology, history, last_update, now,
                       current_time, previous_topology, held, observable>>

\* line 102
DiscoverLldp ==
    /\ pc = "lldp"
    /\ \E f \in ProbeAnswers("lldp") : Discover("lldp", f, "cdp", {})

\* line 105
DiscoverCdp ==
    /\ pc = "cdp"
    /\ \E f \in ProbeAnswers("cdp") : Discover("cdp", f, "stp", {})

\* lines 108-114: _discover_mac_topology is not defined, the AttributeError
\* is caught and logged by _discover_layer2_topology
DiscoverStp ==
    /\ pc = "stp"
    /\ \E f \in ProbeAnswers("stp") :
            Discover("stp", f, "routing", {<<"layer2", "_discover_mac_topology">>})

\* lines 120-132: _discover_arp_topology is not defined, likewise
DiscoverRouting ==
    /\ pc = "routing"
    /\ \E f \in ProbeAnswers("routing") :
            Discover("routing", f, "merge_l2", {<<"layer3", "_discover_arp_topology">>})

\* lines 208-209
MergeLayer2 ==
    /\ pc = "merge_l2"
    /\ topology' = AddLayer(topology, layer2_topology)
    /\ observable' = observable \cup {topology'}
    /\ pc' = "merge_l3"
    /\ UNCHANGED <<alert_objects, active_alerts, alert_history,
                   probed, second, result, layer2_topology, layer3_topology,
                   history, last_update, now, current_time,
                   previous_topology, held, log, raw>>

\* lines 211-212
MergeLayer3 ==
    /\ pc = "merge_l3"
    /\ topology' = AddLayer(topology, layer3_topology)
    /\ observable' = observable \cup {topology'}
    /\ pc' = "merge_dups"
    /\ UNCHANGED <<alert_objects, active_alerts, alert_history,
                   probed, second, result, layer2_topology, layer3_topology,
                   history, last_update, now, current_time,
                   previous_topology, held, log, raw>>

\* lines 215-218: what _merge_duplicate_links raises is caught and logged
MergeDuplicates ==
    /\ pc = "merge_dups"
    /\ LET m == MergeDuplicateLinks(topology)
       IN  /\ topology' = m.value
           /\ log' = IF m.ok THEN log ELSE log \cup {<<"merge", "TypeError">>}
    /\ observable' = observable \cup {topology'}
    /\ pc' = "detect"
    /\ UNCHANGED <<alert_objects, active_alerts, alert_history,
                   probed, second, result, layer2_topology, layer3_topology,
                   history, last_update, now, current_time,
                   previous_topology, held, raw>>

\* line 89
DetectChanges ==
    /\ pc = "detect"
    /\ history' = DetectTopologyChanges(history, topology, previous_topology, now)
    /\ pc' = "finish"
    /\ UNCHANGED <<alert_objects, active_alerts, alert_history,
                   probed, second, result, topology, layer2_topology,
                   layer3_topology, last_update, now, current_time,
                   previous_topology, held, log, raw, observable>>

\* lines 91-92
FinishUpdate ==
    /\ pc = "finish"
    /\ last_update' = current_time
    /\ held' = Holds(topology)
    /\ probed' = NoProbes
    /\ pc' = "returned"
    /\ UNCHANGED <<alert_objects, active_alerts, alert_history,
                   second, result, topology, layer2_topology,
                   layer3_topology, history, now, current_time,
                   previous_topology, log, raw, observable>>

\* network_monitor.py: the monitoring loop comes round to its next call
NextCall ==
    /\ pc = "returned"
    /\ pc' = "idle"
    /\ result' = NoResult
    /\ UNCHANGED <<alert_objects, active_alerts, alert_history,
                   probed, second, topology, layer2_topology,
                   layer3_topology, history, last_update, now, current_time,
                   previous_topology, held, log, raw, observable>>

\* time passes: while the monitoring loop sleeps between two calls, and
\* within a cycle while discovery waits for the devices
TickPoints == {"returned", "routing"}

Tick ==
    /\ pc \in TickPoints
    /\ now < MaxTime
    /\ now' = now + 1
    /\ UNCHANGED <<alert_objects, active_alerts, alert_history,
                   probed, second, result, topology, layer2_topology,
                   layer3_topology, history, last_update, pc, current_time,
                   previous_topology, held, log, raw, observable>>

\* the caller queries the graph it was returned
GetPathCall ==
    /\ pc = "returned"
    /\ result = NoResult
    /\ \E s, t \in Nodes : \E r \in GetPath(topology, s, t) :
            result' = [op |-> "get_path", args |-> <<s, t>>,
                       raised |-> r.raised, value |-> r.value]
    /\ UNCHANGED <<alert_objects, active_alerts, alert_history,
                   probed, second, topology, layer2_topology,
                   layer3_topology, history, last_update, now, pc,
                   current_time, previous_topology, held, log, raw,
                   observable>>

GetRedundantPathsCall ==
    /\ pc = "returned"
    /\ result = NoResult
    /\ \E s, t \in Nodes : \E r \in GetRedundantPaths(topology, s, t) :
            result' = [op |-> "get_redundant_paths", args |-> <<s, t>>,
                       raised |-> r.raised, value |-> r.value]
    /\ UNCHANGED <<alert_objects, active_alerts, alert_history,
                   probed, second, topology, layer2_topology,
                   layer3_topology, history, last_update, now, pc,
                   current_time, previous_topology, held, log, raw,
                   observable>>

GetCriticalLinksCall ==
    /\ pc = "returned"
    /\ result = NoResult
    /\ LET r == GetCriticalLinks(topology)
       IN  result' = [op |-> "get_critical_links", args |-> <<>>,
                      raised |-> r.raised, value |-> r.value]
    /\ UNCHANGED <<alert_objects, active_alerts, alert_history,
                   probed, second, topology, layer2_topology,
                   layer3_topology, history, last_update, now, pc,
                   current_time, previous_topology, held, log, raw,
                   observable>>

\* the start and end times a caller asks the history for
QueryTimes == 0..MaxHistoryTime

\* a get_topology_changes that hands the records out of the history: what it
\* returns is no longer kept
GetTopologyChangesCall_Drains ==
    /\ pc = "returned"
    /\ result = NoResult
    /\ \E start_time, end_time \in QueryTimes :
        LET r == GetTopologyChanges(history, start_time, end_time)
        IN  /\ result' = [op |-> "get_topology_changes",
                          args |-> <<start_time, end_time>>,
                          raised |-> r.raised, value |-> r.value]
            /\ history' = SelectSeq(history,
                            LAMBDA c : \A i \in DOMAIN r.value : r.value[i] # c)
    /\ UNCHANGED <<alert_objects, active_alerts, alert_history,
                   probed, second, topology, layer2_topology, layer3_topology,
                   last_update, now, pc, current_time,
                   previous_topology, held, log, raw, observable>>

GetTopologyChangesCall ==
    /\ pc = "returned"
    /\ result = NoResult
    /\ \E start_time, end_time \in QueryTimes :
        LET r == GetTopologyChanges(history, start_time, end_time)
        IN  result' = [op |-> "get_topology_changes",
                       args |-> <<start_time, end_time>>,
                       raised |-> r.raised, value |-> r.value]
    /\ UNCHANGED <<alert_objects, active_alerts, alert_history,
                   probed, second, topology, layer2_topology, layer3_topology,
                   history, last_update, now, pc, current_time,
                   previous_topology, held, log, raw, observable>>

\* the formats a caller asks for
Formats == {"json", "graphml", "yaml", "dot"}

ExportTopologyCall ==
    /\ pc = "returned"
    /\ result = NoResult
    /\ \E format \in Formats :
        LET r == ExportTopology(topology, format)
        IN  result' = [op |-> "export_topology", args |-> <<format>>,
                       raised |-> r.raised, value |-> r.value]
    /\ UNCHANGED <<alert_objects, active_alerts, alert_history,
                   probed, second, topology, layer2_topology, layer3_topology,
                   history, last_update, now, pc, current_time,
                   previous_topology, held, log, raw, observable>>

Next ==
    \/ GatedReturn
    \/ BeginUpdate
    \/ ClearGraphs
    \/ DiscoverLldp
    \/ DiscoverCdp
    \/ DiscoverStp
    \/ DiscoverRouting
    \/ MergeLayer2
    \/ MergeLayer3
    \/ MergeDuplicates
    \/ DetectChanges
    \/ FinishUpdate
    \/ NextCall
    \/ GetPathCall
    \/ Tick

Spec == Init /\ [][Next]_vars

(***************************************************************************)
(* The queries on the published graph.  They read self.topology and nothing *)
(* else: they are applied to every graph one update cycle can publish, the  *)
(* state being the one update_topology returns in after its first cycle.    *)
(***************************************************************************)
\* the working state after lines 80-83 of a cycle that starts from cleared
\* graphs at time t with the probes answering f1 .. f4
Discovered(f1, f2, f3, f4, t) ==
    LET w0 == Work(EmptyGraph, EmptyGraph, <<>>, {})
        w1 == DiscoverProtocol(w0, "lldp", f1, 1, t)
        w2 == DiscoverProtocol(w1, "cdp", f2, 1, t)
        w3 == DiscoverProtocol(w2, "stp", f3, 1, t)
    IN  DiscoverProtocol(w3, "routing", f4, 1, t)

\* the probes' answers of the queried states: those of ProbeMenu, and
\* connected routes of B and C to a network D that is no device (a route's
\* 'network' is any string; _discover_routing_topology links the device to it)
QueryProbeMenu(p, d) ==
    ProbeMenu(p, d) \cup
    CASE p = "routing" /\ d = "B" ->
            {Returns(<<Route("connected", "D", "ge2")>>)}
      [] p = "routing" /\ d = "C" ->
            {Returns(<<Route("connected", "D", "ge3")>>)}
      [] OTHER -> {}

QueryProbeAnswers(p) ==
    {f \in [DOMAIN Devices ->
                UNION {QueryProbeMenu(p, Devices[i]) : i \in DOMAIN Devices}] :
        \A i \in DOMAIN Devices : f[i] \in QueryProbeMenu(p, Devices[i])}

InitQuery ==
    \E f1 \in QueryProbeAnswers("lldp"), f2 \in QueryProbeAnswers("cdp"),
       f3 \in QueryProbeAnswers("stp"), f4 \in QueryProbeAnswers("routing") :
        LET t == UpdateInterval
            w == Discovered(f1, f2, f3, f4, t)
            g2 == AddLayer(EmptyGraph, w.l2)
            g3 == AddLayer(g2, w.l3)
            m == MergeDuplicateLinks(g3)
        IN  /\ topology = m.value
            /\ layer2_topology = w.l2
            /\ layer3_topology = w.l3
            /\ history = DetectTopologyChanges(<<>>, m.value, EmptyGraph, t)
            /\ last_update = t
            /\ now = t
            /\ pc = "returned"
            /\ current_time = t
            /\ previous_topology = EmptyGraph
            /\ held = Holds(m.value)
            /\ log = w.log \cup {<<"layer2", "_discover_mac_topology">>,
                                 <<"layer3", "_discover_arp_topology">>}
                          \cup (IF m.ok THEN {} ELSE {<<"merge", "TypeError">>})
            /\ raw = w.raw
            /\ observable = {EmptyGraph, g2, g3, m.value}
            /\ result = NoResult
            /\ probed = NoProbes
            /\ second = NoSecond
            /\ alert_objects = <<>>
            /\ active_alerts = <<>>
            /\ alert_history = <<>>

NextQuery ==
    \/ GetPathCall
    \/ GetRedundantPathsCall
    \/ GetCriticalLinksCall
    \/ GetTopologyChangesCall
    \/ ExportTopologyCall

SpecQuery == InitQuery /\ [][NextQuery]_vars

(***************************************************************************)
(* A second caller of update_topology.  The method takes no lock and keeps *)
(* no in-flight flag: a call made from another thread while the loop's     *)
(* call is in flight runs the same statements on the same graphs.          *)
(***************************************************************************)
\* the second caller makes at most this many calls
MaxSecondCalls == 1

\* the positions of the loop's call between the clear and last_update
InFlight == {"clear", "lldp", "cdp", "stp", "routing", "merge_l2", "merge_l3",
             "merge_dups", "detect", "finish"}
\* the same, for the second caller's call
SecondInFlight == {"clear", "discover", "merge", "detect", "finish"}

\* what the probes answer during the second caller's call: the LLDP probe of
\* the first device returns its records or none, every other probe none
SecondProbeAnswers(p) ==
    {f \in ProbeAnswers(p) :
        \A i \in DOMAIN Devices :
            /\ ~f[i].raised
            /\ (p # "lldp" \/ i > 1) => f[i].recs = <<>>}

\* lines 64-72: the second caller calls while the loop's call is in flight;
\* the gate compares with last_update, which the call in flight has not set
SecondCall ==
    /\ second.pc = "idle"
    /\ second.calls < MaxSecondCalls
    /\ pc \in InFlight
    /\ second' = IF Gated(now)
                 THEN [second EXCEPT !.calls = @ + 1]
                 ELSE [pc |-> "clear", calls |-> second.calls + 1,
                       current_time |-> now, previous_topology |-> topology]
    /\ UNCHANGED <<alert_objects, active_alerts, alert_history,
                   topology, layer2_topology, layer3_topology, history,
                   last_update, now, pc, current_time, previous_topology,
                   held, log, raw, observable, result, probed>>

\* lines 75-77
SecondClear ==
    /\ second.pc = "clear"
    /\ topology' = EmptyGraph
    /\ layer2_topology' = EmptyGraph
    /\ layer3_topology' = EmptyGraph
    /\ observable' = observable \cup {topology'}
    /\ second' = [second EXCEPT !.pc = "discover"]
    /\ UNCHANGED <<alert_objects, active_alerts, alert_history,
                   history, last_update, now, pc, current_time,
                   previous_topology, held, log, raw, result, probed>>

\* lines 80-83: _discover_layer2_topology and _discover_layer3_topology
SecondDiscover ==
    /\ second.pc = "discover"
    /\ \E f1 \in SecondProbeAnswers("lldp"), f2 \in SecondProbeAnswers("cdp"),
          f3 \in SecondProbeAnswers("stp"), f4 \in SecondProbeAnswers("routing") :
        LET w0 == Work(layer2_topology, layer3_topology, raw, log)
            w1 == DiscoverProtocol(w0, "lldp", f1, 1, now)
            w2 == DiscoverProtocol(w1, "cdp", f2, 1, now)
            w3 == DiscoverProtocol(w2, "stp", f3, 1, now)
            w4 == DiscoverProtocol(w3, "routing", f4, 1, now)
        IN  /\ layer2_topology' = w4.l2
            /\ layer3_topology' = w4.l3
            /\ raw' = w4.raw
            /\ log' = w4.log \cup {<<"layer2", "_discover_mac_topology">>,
                                   <<"layer3", "_discover_arp_topology">>}
    /\ second' = [second EXCEPT !.pc = "merge"]
    /\ UNCHANGED <<alert_objects, active_alerts, alert_history,
                   topology, history, last_update, now, pc, current_time,
                   previous_topology, held, observable, result, probed>>

\* line 86: _merge_topologies
SecondMerge ==
    /\ second.pc = "merge"
    /\ LET g2 == AddLayer(topology, layer2_topology)
           g3 == AddLayer(g2, layer3_topology)
           m == MergeDuplicateLinks(g3)
       IN  /\ topology' = m.value
           /\ log' = IF m.ok THEN log ELSE log \cup {<<"merge", "TypeError">>}
           /\ observable' = observable \cup {g2, g3, m.value}
    /\ second' = [second EXCEPT !.pc = "detect"]
    /\ UNCHANGED <<alert_objects, active_alerts, alert_history,
                   layer2_topology, layer3_topology, history, last_update,
                   now, pc, current_time, previous_topology, held, raw,
                   result, probed>>

\* line 89
SecondDetect ==
    /\ second.pc = "detect"
    /\ history' = DetectTopologyChanges(history, topology,
                                        second.previous_topology, now)
    /\ second' = [second EXCEPT !.pc = "finish"]
    /\ UNCHANGED <<alert_objects, active_alerts, alert_history,
                   topology, layer2_topology, layer3_topology, last_update,
                   now, pc, current_time, previous_topology, held, log, raw,
                   observable, result, probed>>

\* lines 91-92
SecondFinish ==
    /\ second.pc = "finish"
    /\ last_update' = second.current_time
    /\ second' = [second EXCEPT !.pc = "idle"]
    /\ UNCHANGED <<alert_objects, active_alerts, alert_history,
                   topology, layer2_topology, layer3_topology, history, now,
                   pc, current_time, previous_topology, held, log, raw,
                   observable, result, probed>>

\* one call of the loop and the second caller's calls, at one instant
NextConcurrent ==
    \/ BeginUpdate
    \/ ClearGraphs
    \/ DiscoverLldp
    \/ DiscoverCdp
    \/ DiscoverStp
    \/ DiscoverRouting
    \/ MergeLayer2
    \/ MergeLayer3
    \/ MergeDuplicates
    \/ DetectChanges
    \/ FinishUpdate
    \/ SecondCall
    \/ SecondClear
    \/ SecondDiscover
    \/ SecondMerge
    \/ SecondDetect
    \/ SecondFinish

SpecConcurrent == Init /\ [][NextConcurrent]_vars

(***************************************************************************)
(* The unified graph as a function of the cycle's _add_link calls           *)
(***************************************************************************)
\* lines 75-83: the layer graphs after the _add_link calls links, all at time t
RECURSIVE BuildLayers(_, _, _)
BuildLayers(w, links, t) ==
    IF links = <<>> THEN w
    ELSE BuildLayers(AddLink(w, Head(links), t), Tail(links), t)

\* lines 75-86: the unified graph update_topology builds from the calls links
Unified(links, t) ==
    LET w == BuildLayers(Work(EmptyGraph, EmptyGraph, <<>>, {}), links, t)
    IN  MergeDuplicateLinks(AddLayer(AddLayer(EmptyGraph, w.l2), w.l3)).value

(***************************************************************************)
(* get_topology_changes reads self.history and nothing else: it is applied  *)
(* to the histories a run of cycles leaves.  Cycle k starts at starts[k],   *)
(* at least one interval after the start of cycle k - 1 and not before its  *)
(* end, stamps its change record at stamps[k] >= starts[k], and publishes   *)
(* graphs[k].                                                              *)
(***************************************************************************)

\* the graph of a cycle that found the LLDP link A-B at time t
OneLink(t) == Unified(<<Link("A", "B", PHYSICAL, L2, "eth0", "eth1")>>, t)

\* the history after the first k cycles
RECURSIVE HistoryAfter(_, _, _)
HistoryAfter(found, stamps, k) ==
    IF k = 0 THEN <<>>
    ELSE LET G(i) == IF i = 0 \/ ~found[i] THEN EmptyGraph ELSE OneLink(stamps[i])
         IN  DetectTopologyChanges(HistoryAfter(found, stamps, k - 1),
                                   G(k), G(k - 1), stamps[k])

InitHistory ==
    \E n \in 1..MaxCycles :
    \E starts \in [1..n -> UpdateInterval..MaxHistoryTime] :
    \E stamps \in [1..n -> UpdateInterval..MaxHistoryTime] :
    \E found \in [1..n -> BOOLEAN] :
        /\ \A k \in 1..n : starts[k] <= stamps[k]
        /\ \A k \in 1..(n - 1) : /\ starts[k] + UpdateInterval <= starts[k + 1]
                                  /\ stamps[k] <= starts[k + 1]
        /\ LET g == IF found[n] THEN OneLink(stamps[n]) ELSE EmptyGraph
               before == IF n > 1 /\ found[n - 1]
                         THEN OneLink(stamps[n - 1]) ELSE EmptyGraph
               w == BuildLayers(Work(EmptyGraph, EmptyGraph, <<>>, {}),
                        IF found[n]
                        THEN <<Link("A", "B", PHYSICAL, L2, "eth0", "eth1")>>
                        ELSE <<>>, stamps[n])
           IN  /\ topology = g
               /\ layer2_topology = w.l2
               /\ layer3_topology = w.l3
               /\ history = HistoryAfter(found, stamps, n)
               /\ last_update = starts[n]
               /\ now = stamps[n]
               /\ pc = "returned"
               /\ current_time = starts[n]
               /\ previous_topology = before
               /\ held = Holds(g)
               /\ log = {<<"layer2", "_discover_mac_topology">>,
                          <<"layer3", "_discover_arp_topology">>}
                            \cup (IF found[n] THEN {<<"merge", "TypeError">>} ELSE {})
               /\ raw = w.raw
               /\ observable = {before, EmptyGraph, g}
               /\ result = NoResult
               /\ probed = NoProbes
               /\ second = NoSecond
               /\ alert_objects = <<>>
               /\ active_alerts = <<>>
               /\ alert_history = <<>>

NextHistory == GetTopologyChangesCall

SpecHistory == InitHistory /\ [][NextHistory]_vars

\* same nodes, same edges, identical edge attributes
SameGraph(G, H) ==
    /\ NodeSet(G) = NodeSet(H)
    /\ DOMAIN G.edges = DOMAIN H.edges
    /\ \A e \in DOMAIN G.edges : G.edges[e] = H.edges[e]

Orderings(n) ==
    {p \in [1..n -> 1..n] : \A i, j \in 1..n : p[i] = p[j] => i = j}

\* a cycle has run to its end and has not returned yet
CycleBuilt == pc = "finish"
\* the change record the cycle appended
LastChange == history[Len(history)]
MergeFailed == <<"merge", "TypeError">> \in log

\* the interface pairs an edge carries: the merged 'interfaces' set, or the
\* one pair of an unmerged attribute dict
Interfaces(data) ==
    IF "interfaces" \in DOMAIN data THEN data.interfaces
    ELSE {<<data.source_interface, data.target_interface>>}

\* the layers an edge carries
Layers(data) ==
    IF "layers" \in DOMAIN data THEN data.layers ELSE {data.layer}

\* link identity: unordered node pair plus layer
LinkIds(G) ==
    {x \in (DOMAIN G.edges) \X {L2, L3} : x[2] \in Layers(G.edges[x[1]])}
\* the identities, in G, of the edges listed as (u, v) tuples
IdsOf(G, tuples) ==
    {x \in LinkIds(G) : \E t \in tuples : x[1] = {t[1], t[2]}}

\* the attributes a link is observed with: kind, layer and interfaces
Observed(data) ==
    [k \in (DOMAIN data) \ {"timestamp"} |-> data[k]]

(***************************************************************************)
(* Claims                                                                  *)
(***************************************************************************)

\* C1: when the build of a cycle fails (here: the merge raises), the graph
\* published before the cycle is still the published graph, and it is what
\* the caller gets back.
C1_FailureKeepsPrevious ==
    (pc = "returned" /\ MergeFailed) =>
        (topology = previous_topology /\ held.graph = previous_topology)

\* C2: whatever a reader could read from the published graph during a cycle
\* is the complete graph published before the cycle or the complete graph the
\* cycle published.
C2_NoPartialGraphObservable ==
    pc = "returned" => observable \subseteq {previous_topology, topology}

\* C3: a call made less than update_interval after the last publish returns
\* the current topology and leaves the published graph, last_update, the
\* layer graphs and the history unchanged.
C3_GatedCallChangesNothing ==
    [][(pc = "idle" /\ pc' # "idle" /\ now - last_update < UpdateInterval) =>
        /\ pc' = "returned"
        /\ held' = Holds(topology)
        /\ topology' = topology
        /\ last_update' = last_update
        /\ layer2_topology' = layer2_topology
        /\ layer3_topology' = layer3_topology
        /\ history' = history]_vars

\* a gated call has returned the graph of an earlier cycle
C3_Witness ==
    /\ pc = "returned"
    /\ current_time > last_update
    /\ current_time - last_update < UpdateInterval
    /\ held = Holds(topology)
    /\ topology # EmptyGraph
    /\ history # <<>>

\* C4: a change record is in the history only if one of its categories is
\* non-empty; a cycle that rebuilds an identical graph appends none.
C4_NoEmptyChangeRecord ==
    \A i \in DOMAIN history :
        \/ history[i].added_nodes # {}
        \/ history[i].removed_nodes # {}
        \/ history[i].added_links # {}
        \/ history[i].removed_links # {}
        \/ history[i].modified_links # {}

\* the interface pair (a, b) is among the pairs the edge carries, from either end
CarriesPair(data, a, b) ==
    <<a, b>> \in Interfaces(data) \/ <<b, a>> \in Interfaces(data)

\* C5: two raw records of a cycle for the same unordered node pair and the
\* same layer, with different interface pairs, leave one edge for the pair in
\* the unified graph, and its interface set holds both pairs.
C5_DuplicateLinksCollapse ==
    CycleBuilt =>
        \A i, j \in DOMAIN raw :
            (/\ {raw[i].source, raw[i].target} = {raw[j].source, raw[j].target}
             /\ raw[i].layer = raw[j].layer
             /\ {raw[i].source_interface, raw[i].target_interface} #
                    {raw[j].source_interface, raw[j].target_interface})
            => /\ HasEdge(topology, raw[i].source, raw[i].target)
               /\ LET data == GetEdgeData(topology, raw[i].source, raw[i].target)
                  IN  /\ CarriesPair(data, raw[i].source_interface, raw[i].target_interface)
                      /\ CarriesPair(data, raw[j].source_interface, raw[j].target_interface)

\* C6: the unified graph of a cycle is the one every permutation of the
\* cycle's raw records builds: same nodes, same edges, identical attributes.
C6_MergeOrderIndependent ==
    CycleBuilt =>
        \A p \in Orderings(Len(raw)) :
            SameGraph(Unified([i \in 1..Len(raw) |-> raw[p[i]]], current_time),
                      Unified(raw, current_time))

\* C7: the graph object a call returned keeps the nodes, edges and attributes
\* it had when it was returned (the object returned is self.topology).
C7_ReturnedGraphNeverModified ==
    held.got => topology = held.graph

\* C8: in a cycle's change record, added_links are exactly the link identities
\* (unordered pair, layer) of the new graph that the previous graph lacks,
\* and removed_links exactly those of the previous graph that the new lacks.
C8_LinkIdentityUnordered ==
    CycleBuilt =>
        /\ IdsOf(topology, LastChange.added_links) =
                LinkIds(topology) \ LinkIds(previous_topology)
        /\ IdsOf(previous_topology, LastChange.removed_links) =
                LinkIds(previous_topology) \ LinkIds(topology)

\* C9: in a cycle's change record an edge is listed in modified_links only
\* when its attributes differ between the previous and the new graph: a link
\* observed again with the same kind, layer and interfaces gives no entry.
C9_ModifiedOnlyIfAttributesDiffer ==
    CycleBuilt =>
        \A m \in LastChange.modified_links :
            Observed(m.previous) # Observed(m.current)

\* C10: get_path answers with the empty list, and raises nothing, when source
\* and target (two different keys) are in different connected components and
\* when one of them is not a node of the published graph.
C10_NoPathIsEmptyList ==
    (/\ result.op = "get_path"
     /\ result.args[1] # result.args[2]
     /\ SimplePaths(topology, result.args[1], result.args[2]) = {})
    => (result.raised = "" /\ result.value = <<>>)

\* the merge of the cycle is over
Merged == pc \in {"detect", "finish", "returned"}

\* the edges G.edges() lists for the unordered pair {a, b} in layer ly
EdgesOf(G, a, b, ly) ==
    {t \in Edges(G) : /\ {t[1], t[2]} = {a, b}
                      /\ ly \in Layers(GetEdgeData(G, t[1], t[2]))}

\* C11: after the merge the unified graph lists at most one edge per
\* (unordered node pair, layer), however many observations of that pair and
\* layer the cycle discovered.
C11_OneEdgePerPairAndLayer ==
    Merged =>
        LET listed == Edges(topology)
        IN  \A a, b \in Nodes : \A ly \in {L2, L3} :
                Cardinality({t \in listed :
                                /\ {t[1], t[2]} = {a, b}
                                /\ ly \in Layers(GetEdgeData(topology, t[1], t[2]))}) <= 1

\* a cycle observed the same pair in the same layer three times and the
\* unified graph holds the pair's edge
C11_Witness ==
    /\ CycleBuilt
    /\ \E i, j, k \in DOMAIN raw :
        /\ i < j /\ j < k
        /\ {raw[i].source, raw[i].target} = {raw[j].source, raw[j].target}
        /\ {raw[j].source, raw[j].target} = {raw[k].source, raw[k].target}
        /\ raw[i].layer = raw[j].layer /\ raw[j].layer = raw[k].layer
        /\ Cardinality(EdgesOf(topology, raw[i].source, raw[i].target, raw[i].layer)) = 1

\* the link kinds an edge carries
LinkTypes(data) ==
    IF "link_types" \in DOMAIN data THEN data.link_types ELSE {data.link_type}

\* C12: a node pair linked in both the L2 graph and the L3 graph has one edge
\* in the unified graph, whose layers are L2 and L3, whose link kinds are
\* those of both observations and whose interfaces hold both interface pairs.
C12_CrossLayerUnion ==
    CycleBuilt =>
        \A e \in (DOMAIN layer2_topology.edges) \cap (DOMAIN layer3_topology.edges) :
            /\ e \in DOMAIN topology.edges
            /\ LET data == topology.edges[e]
                   d2 == layer2_topology.edges[e]
                   d3 == layer3_topology.edges[e]
               IN  /\ Layers(data) = {L2, L3}
                   /\ LinkTypes(data) = {d2.link_type, d3.link_type}
                   /\ CarriesPair(data, d2.source_interface, d2.target_interface)
                   /\ CarriesPair(data, d3.source_interface, d3.target_interface)

Protocols == {"lldp", "cdp", "stp", "routing"}

\* the layer graph _add_link puts a link of layer ly into
LayerGraph(ly) == IF ly = L2 THEN layer2_topology ELSE layer3_topology

\* a probe of the cycle raised or returned no record
SomeProbeFailed ==
    \E p \in DOMAIN probed : \E i \in DOMAIN Devices :
        probed[p][i].raised \/ probed[p][i].recs = <<>>

\* C13: in a cycle in which a probe raised or returned nothing, every
\* protocol's discovery has run and every link a probe returned (a record
\* that passes the protocol's filter) is an edge of its layer graph when the
\* cycle has run to its end.
C13_ProbeFailureIsolated ==
    (CycleBuilt /\ SomeProbeFailed) =>
        /\ DOMAIN probed = Protocols
        /\ \A p \in DOMAIN probed : \A i \in DOMAIN Devices :
            ~probed[p][i].raised =>
                \A k \in DOMAIN probed[p][i].recs :
                    LET r == probed[p][i].recs[k]
                        link == LinkOf(p, Devices[i], r)
                    IN  Accepted(p, r) =>
                            HasEdge(LayerGraph(link.layer), link.source, link.target)

\* the LLDP probe of A raised, the LLDP probe of B and the routing probe of A
\* returned links, and the cycle has run to its end with both links in place
C13_Witness ==
    /\ CycleBuilt
    /\ DOMAIN probed = Protocols
    /\ probed["lldp"][1].raised
    /\ probed["lldp"][2].recs # <<>>
    /\ <<"lldp", "A">> \in log
    /\ HasEdge(layer2_topology, "B", "C")
    /\ DOMAIN layer3_topology.edges # {}

\* C14: no two update cycles are in flight at once: while the loop's call is
\* between clearing the graphs and recording last_update, no second call is
\* past the gate clearing, building or diffing.
C14_OneCycleInFlight ==
    ~(pc \in InFlight /\ second.pc \in SecondInFlight)

\* the edges of G that touch node c
Touching(G, c) == {e \in DOMAIN G.edges : c \in e}

\* device c had links in the previous graph, the cycle found no link touching
\* c, and every other link was found again (so every other node stays)
LostOnly(c) ==
    /\ Touching(previous_topology, c) # {}
    /\ Touching(topology, c) = {}
    /\ \A x \in LinkIds(previous_topology) : c \notin x[1] => x \in LinkIds(topology)
    /\ \A n \in NodeSet(previous_topology) \ {c} :
            \E e \in DOMAIN previous_topology.edges : n \in e /\ c \notin e

\* C15: when a cycle loses exactly the links of device c, its change record
\* has removed_nodes = [c] and removed_links are exactly the edges that
\* touched c.
C15_RemovedDeviceRecorded ==
    CycleBuilt =>
        \A c \in Nodes :
            LostOnly(c) =>
                /\ LastChange.removed_nodes = {c}
                /\ {{t[1], t[2]} : t \in LastChange.removed_links} =
                        Touching(previous_topology, c)

\* the state a first cycle of Spec returns in, before any query and with no
\* time passed, is one of the states SpecQuery starts from
FirstReturn ==
    /\ pc = "returned"
    /\ Len(history) = 1
    /\ now = UpdateInterval
    /\ result = NoResult
QueryStatesAreReturnStates == FirstReturn => InitQuery

\* p leads from s to t along edges of G and repeats no node
IsSimplePath(G, p, s, t) ==
    /\ Len(p) >= 1
    /\ p[1] = s
    /\ p[Len(p)] = t
    /\ \A i \in 1..(Len(p) - 1) : HasEdge(G, p[i], p[i + 1])
    /\ \A i, j \in DOMAIN p : p[i] = p[j] => i = j

\* C16: for source and target joined by a path of the unified graph,
\* get_path returns a node sequence from source to target whose consecutive
\* nodes are joined by an edge of the unified graph (of any layer) and that
\* has the fewest hops of all such paths; with L2 links A-B and B-C and an L3
\* link A-C, the path from A to C is [A, C].
C16_PathIsShortest ==
    (/\ result.op = "get_path"
     /\ SimplePaths(topology, result.args[1], result.args[2]) # {})
    => /\ result.raised = ""
       /\ IsSimplePath(topology, result.value, result.args[1], result.args[2])
       /\ \A q \in SimplePaths(topology, result.args[1], result.args[2]) :
            Len(result.value) <= Len(q)
       /\ (/\ HasEdge(layer2_topology, "A", "B")
           /\ HasEdge(layer2_topology, "B", "C")
           /\ HasEdge(layer3_topology, "A", "C")
           /\ result.args = <<"A", "C">>) => result.value = <<"A", "C">>

\* the L2 links A-B and B-C and the L3 link A-C are published and
\* get_path('A', 'C') has returned [A, C]
C16_Witness ==
    /\ result.op = "get_path"
    /\ result.args = <<"A", "C">>
    /\ result.value = <<"A", "C">>
    /\ HasEdge(layer2_topology, "A", "B")
    /\ HasEdge(layer2_topology, "B", "C")
    /\ HasEdge(layer3_topology, "A", "C")
    /\ DOMAIN topology.edges = {{"A", "B"}, {"B", "C"}, {"A", "C"}}

\* G without the edge e
RemoveEdge(G, e) ==
    [G EXCEPT !.edges = [k \in (DOMAIN G.edges) \ {e} |-> G.edges[k]]]

\* removing the edge e disconnects its two endpoints
IsBridge(G, e) ==
    \A u, v \in e : u # v => SimplePaths(RemoveEdge(G, e), u, v) = {}

Degree(G, n) == Cardinality({e \in DOMAIN G.edges : n \in e})
Connected(G) == \A a, b \in NodeSet(G) : SimplePaths(G, a, b) # {}
NumNodes(G) == Cardinality(NodeSet(G))

IsPathGraph(G) ==
    /\ NumNodes(G) >= 2
    /\ Connected(G)
    /\ Cardinality(DOMAIN G.edges) = NumNodes(G) - 1
    /\ \A n \in NodeSet(G) : Degree(G, n) <= 2

IsCycleGraph(G) ==
    /\ NumNodes(G) >= 3
    /\ Connected(G)
    /\ \A n \in NodeSet(G) : Degree(G, n) = 2

\* C17: get_critical_links returns exactly the bridges of the published
\* graph, each once: all n-1 edges of a path graph of n nodes, no edge of a
\* cycle graph of n >= 3 nodes.
C17_CriticalLinksAreBridges ==
    result.op = "get_critical_links" =>
        /\ result.raised = ""
        /\ {{result.value[i][1], result.value[i][2]} : i \in DOMAIN result.value} =
                {e \in DOMAIN topology.edges : IsBridge(topology, e)}
        /\ \A i, j \in DOMAIN result.value :
                {result.value[i][1], result.value[i][2]} =
                    {result.value[j][1], result.value[j][2]} => i = j
        /\ IsPathGraph(topology) => Len(result.value) = NumNodes(topology) - 1
        /\ IsCycleGraph(topology) => result.value = <<>>

\* the published graph is the path graph of three nodes and
\* get_critical_links has returned its two edges
C17_Witness ==
    /\ result.op = "get_critical_links"
    /\ IsPathGraph(topology)
    /\ NumNodes(topology) = 3
    /\ Len(result.value) = 2

\* the hops of a path
Hops(p) == Len(p) - 1

\* C18: get_redundant_paths keeps to the configured bound, whichever it is:
\* it returns at most that many paths, or only paths of at most that many
\* hops, and raises nothing.
C18_RedundantPathsBounded ==
    result.op = "get_redundant_paths" =>
        /\ result.raised = ""
        /\ \A bound \in 1..Cardinality(Nodes) :
            \/ Len(result.value) <= bound
            \/ \A i \in DOMAIN result.value : Hops(result.value[i]) <= bound

\* C19: get_redundant_paths(source, target) returns the simple paths from
\* source to target in the published graph: every returned path leads from
\* source to target along edges of the graph and repeats no node, every such
\* path of at least one hop is returned, and no path is returned twice.
C19_RedundantPathsAreSimplePaths ==
    result.op = "get_redundant_paths" =>
        /\ result.raised = ""
        /\ \A i \in DOMAIN result.value :
                IsSimplePath(topology, result.value[i], result.args[1], result.args[2])
        /\ \A p \in SimplePaths(topology, result.args[1], result.args[2]) :
                Len(p) > 1 => \E i \in DOMAIN result.value : result.value[i] = p
        /\ \A i, j \in DOMAIN result.value :
                result.value[i] = result.value[j] => i = j

\* on the triangle A-B, B-C, A-C get_redundant_paths('A', 'C') has returned
\* the two paths [A, C] and [A, B, C]
C19_Witness ==
    /\ result.op = "get_redundant_paths"
    /\ result.args = <<"A", "C">>
    /\ Len(result.value) = 2
    /\ \E i \in DOMAIN result.value : result.value[i] = <<"A", "B", "C">>
    /\ \E i \in DOMAIN result.value : result.value[i] = <<"A", "C">>

\* C20: the history is append-only and time-ordered: every step keeps the
\* records already in it at their positions with their contents, adds new
\* records only at the end, and leaves the timestamps non-decreasing along
\* the list.
C20_HistoryAppendOnly ==
    [][/\ Len(history') >= Len(history)
       /\ \A i \in DOMAIN history : history'[i] = history[i]
       /\ \A i \in 1..(Len(history') - 1) :
            history'[i].timestamp <= history'[i + 1].timestamp]_vars

\* a second cycle has appended its record, later than the first, to the
\* history
C20_Witness ==
    /\ CycleBuilt
    /\ Len(history) >= 2
    /\ history[1].timestamp < history[2].timestamp
    /\ history[2].timestamp = now

\* the positions of the history whose record is stamped within [lo, hi]
InRange(lo, hi) ==
    {i \in DOMAIN history : lo <= history[i].timestamp /\ history[i].timestamp <= hi}

\* C21: get_topology_changes(start_time, end_time) returns exactly the
\* records of the history stamped within [start_time, end_time], in the
\* order in which they were appended; the empty list when there is none.
C21_ChangesInRange ==
    result.op = "get_topology_changes" =>
        LET idx == InRange(result.args[1], result.args[2])
        IN  /\ result.raised = ""
            /\ Len(result.value) = Cardinality(idx)
            /\ \A i \in idx :
                result.value[Cardinality({j \in idx : j <= i})] = history[i]

\* the history holds three records, the call asked for the range that ends
\* at the stamp of the second, and got the first two in order
C21_Witness ==
    /\ result.op = "get_topology_changes"
    /\ Len(history) = 3
    /\ history[2].timestamp < history[3].timestamp
    /\ result.args[2] = history[2].timestamp
    /\ result.value = <<history[1], history[2]>>

\* the graph the call before the cycle returned, as it was then
PublishedBefore == IF held.got THEN held.graph ELSE EmptyGraph

\* C22: in a cycle's change record added_nodes are the nodes of the new graph
\* that were no nodes of the graph published before the cycle, and
\* removed_nodes the nodes of that graph that are no nodes of the new one;
\* nodes are compared by key only.
C22_NodeDiffByKey ==
    CycleBuilt =>
        /\ LastChange.added_nodes =
                {n \in NodeSet(topology) : n \notin NodeSet(PublishedBefore)}
        /\ LastChange.removed_nodes =
                {n \in NodeSet(PublishedBefore) : n \notin NodeSet(topology)}

\* a cycle lost one node and gained another
C22_Witness ==
    /\ CycleBuilt
    /\ LastChange.added_nodes # {}
    /\ LastChange.removed_nodes # {}
    /\ NodeSet(topology) \cap NodeSet(PublishedBefore) # {}

\* C23: export_topology with a format other than 'json' and 'graphml'
\* returns None to the caller, raises nothing, and leaves the published
\* graph and the history as they were.
C23_UnsupportedFormatReported ==
    [][(/\ result.op = "none"
        /\ result'.op = "export_topology"
        /\ result'.args[1] \notin {"json", "graphml"})
       => /\ result'.raised = ""
          /\ result'.value = <<None>>
          /\ topology' = topology
          /\ history' = history]_vars

\* export_topology('yaml') has returned None on a published graph with links
C23_Witness ==
    /\ result.op = "export_topology"
    /\ result.args = <<"yaml">>
    /\ result.raised = ""
    /\ result.value = <<None>>
    /\ DOMAIN topology.edges # {}
    /\ history # <<>>

(***************************************************************************)
(* C24                                                                     *)
(***************************************************************************)
\* the nodes a and b are joined by a path of G
Reachable(G, a, b) ==
    a \in NodeSet(G) /\ b \in NodeSet(G) /\ SimplePaths(G, a, b) # {}

\* the hop counts get_path(s, t) can answer with on G
PathHops(G, s, t) ==
    {Hops(r.value) : r \in {x \in GetPath(G, s, t) : x.raised = ""}}

\* C24: when get_path(a, c) has returned a path on the published graph, then
\* for every node b that a and c are joined with, the path has no more hops
\* than a path get_path answers from a to b and one it answers from b to c
\* have together: hops(a, c) <= hops(a, b) + hops(b, c)
C24_TriangleProperty ==
    (result.op = "get_path" /\ result.raised = "")
    => LET a == result.args[1]
           c == result.args[2]
       IN  \A b \in NodeSet(topology) :
             (Reachable(topology, a, b) /\ Reachable(topology, b, c))
             => /\ Reachable(topology, a, c)
                /\ result.value # <<>>
                /\ PathHops(topology, a, b) # {}
                /\ PathHops(topology, b, c) # {}
                /\ \A h1 \in PathHops(topology, a, b),
                      h2 \in PathHops(topology, b, c) :
                        Hops(result.value) <= h1 + h2

\* get_path('A', 'C') has answered with the two hops over B, on a graph that
\* also joins A and C by the three hops A, B, D, C
C24_Witness ==
    /\ result.op = "get_path"
    /\ result.args = <<"A", "C">>
    /\ result.raised = ""
    /\ result.value = <<"A", "B", "C">>
    /\ <<"A", "B", "D", "C">> \in SimplePaths(topology, "A", "C")
    /\ PathHops(topology, "A", "B") = {1}
    /\ PathHops(topology, "B", "C") = {1}

(***************************************************************************)
(* AlertManager (modules/alert_manager.py)                                 *)
(***************************************************************************)
\* Optional[...]: None, or a value
Absent == <<>>
Some(x) == <<x>>

\* AlertSeverity, AlertStatus
CRITICAL == "critical"
WARNING == "warning"
INFO == "info"
StatusNEW == "new"
ACKNOWLEDGED == "acknowledged"
RESOLVED == "resolved"

\* config['correlation_window'], in seconds
CorrelationWindow == 2

\* the last second of the clock, and the most Alert objects ever created
MaxAlertTime == 3
MaxAlerts == 2

\* metrics_manager.Metric
Metric(name, value, warning, critical) ==
    [name |-> name, value |-> value,
     threshold_warning |-> warning, threshold_critical |-> critical]

\* the device (device.ip) and the metrics process_metrics is called with:
\* a value under, at and over two thresholds, one threshold or none set, and
\* a critical threshold of 0
AlertDevices == {"A"}
AlertMetrics ==
    {Metric("cpu", v, Some(1), Some(2)) : v \in 0..2} \cup
    {Metric("cpu", 2, Some(1), Absent), Metric("cpu", 2, Absent, Some(2)),
     Metric("fan", 2, Absent, Absent), Metric("mem", 0, Some(1), Some(0))}
MetricLists ==
    {<<>>} \cup {<<m>> : m \in AlertMetrics}
           \cup {<<m1, m2>> : m1 \in AlertMetrics, m2 \in AlertMetrics}

\* the AlertManager: its Alert objects, active_alerts as (id, object) items
\* in dict order, alert_history as a list of objects
Manager(objects, active, hist) ==
    [objects |-> objects, active |-> active, history |-> hist]

\* alert_id in self.active_alerts, and the position of its item
ActiveAt(active, alert_id) == {i \in DOMAIN active : active[i].key = alert_id}
IsActive(active, alert_id) == ActiveAt(active, alert_id) # {}

\* a threshold test that alerts only above the threshold
ShouldAlert_AboveOnly(metric) ==
    \/ /\ metric.threshold_critical # Absent
       /\ metric.value > metric.threshold_critical[1]
    \/ /\ metric.threshold_warning # Absent
       /\ metric.value > metric.threshold_warning[1]

\* _should_alert
ShouldAlert(metric) ==
    \/ /\ metric.threshold_critical # Absent
       /\ metric.value >= metric.threshold_critical[1]
    \/ /\ metric.threshold_warning # Absent
       /\ metric.value >= metric.threshold_warning[1]

\* _determine_severity
DetermineSeverity(metric) ==
    IF /\ metric.threshold_critical # Absent
       /\ metric.value >= metric.threshold_critical[1]
    THEN CRITICAL
    ELSE IF /\ metric.threshold_warning # Absent
            /\ metric.value >= metric.threshold_warning[1]
         THEN WARNING
         ELSE INFO

\* metric.threshold_critical or metric.threshold_warning: None and 0 are false
ThresholdOf(metric) ==
    IF metric.threshold_critical # Absent /\ metric.threshold_critical[1] # 0
    THEN metric.threshold_critical
    ELSE metric.threshold_warning

\* _check_correlation: the first active alert, in dict order, of the device
\* and metric that is younger than the window gives its correlation_id or id
CheckCorrelation(am, device_ip, metric_name, t) ==
    LET hits == {i \in DOMAIN am.active :
                    LET alert == am.objects[am.active[i].alert]
                    IN  /\ alert.device_ip = device_ip
                        /\ alert.metric_name = metric_name
                        /\ t - alert.timestamp < CorrelationWindow}
    IN  IF hits = {} THEN Absent
        ELSE LET first == CHOOSE i \in hits : \A j \in hits : i <= j
                 alert == am.objects[am.active[first].alert]
             IN  IF alert.correlation_id # Absent THEN alert.correlation_id
                 ELSE Some(alert.id)

\* self.active_alerts[key] = alert: a new key goes last, a known key keeps
\* its place
DictSet(active, key, alert) ==
    IF IsActive(active, key)
    THEN [i \in DOMAIN active |->
            IF active[i].key = key THEN [key |-> key, alert |-> alert]
            ELSE active[i]]
    ELSE Append(active, [key |-> key, alert |-> alert])

\* del self.active_alerts[key]
DictDel(active, key) == SelectSeq(active, LAMBDA item : item.key # key)

\* _create_alert at time t: the Alert is built (nothing in the try block
\* raises for a Device and a Metric), stored under its id and appended to
\* the history; the id is the device, the metric and the second
CreateAlert(am, device, metric, t) ==
    LET alert == [id |-> <<device, metric.name, t>>,
                  severity |-> DetermineSeverity(metric),
                  status |-> StatusNEW,
                  device_ip |-> device,
                  metric_name |-> metric.name,
                  metric_value |-> metric.value,
                  threshold |-> ThresholdOf(metric),
                  timestamp |-> t,
                  correlation_id |-> CheckCorrelation(am, device, metric.name, t)]
        ref == Len(am.objects) + 1
    IN  [am |-> Manager(Append(am.objects, alert),
                        DictSet(am.active, alert.id, ref),
                        Append(am.history, ref)),
         alert |-> ref]

\* process_metrics: the alerts of the metrics that should alert, in order
RECURSIVE ProcessMetrics(_, _, _, _, _)
ProcessMetrics(am, device, metrics, t, alerts) ==
    IF metrics = <<>> THEN [am |-> am, alerts |-> alerts]
    ELSE IF ShouldAlert(Head(metrics))
         THEN LET c == CreateAlert(am, device, Head(metrics), t)
              IN  ProcessMetrics(c.am, device, Tail(metrics), t,
                                 Append(alerts, c.alert))
         ELSE ProcessMetrics(am, device, Tail(metrics), t, alerts)

\* acknowledge_alert
AcknowledgeAlert(am, alert_id) ==
    IF IsActive(am.active, alert_id)
    THEN LET ref == am.active[CHOOSE i \in ActiveAt(am.active, alert_id) : TRUE].alert
         IN  [am EXCEPT !.objects[ref].status = ACKNOWLEDGED]
    ELSE am

\* a resolve that leaves the alert among the active alerts
ResolveAlert_KeepsActive(am, alert_id) ==
    IF IsActive(am.active, alert_id)
    THEN LET ref == am.active[CHOOSE i \in ActiveAt(am.active, alert_id) : TRUE].alert
         IN  Manager([am.objects EXCEPT ![ref].status = RESOLVED],
                     am.active,
                     Append(am.history, ref))
    ELSE am

\* resolve_alert
ResolveAlert(am, alert_id) ==
    IF IsActive(am.active, alert_id)
    THEN LET ref == am.active[CHOOSE i \in ActiveAt(am.active, alert_id) : TRUE].alert
         IN  Manager([am.objects EXCEPT ![ref].status = RESOLVED],
                     DictDel(am.active, alert_id),
                     Append(am.history, ref))
    ELSE am

\* the variables of the TopologyManager, which the AlertManager never touches
topologyVars == <<topology, layer2_topology, layer3_topology, history,
                  last_update, pc, current_time, previous_topology, held,
                  log, raw, observable, probed, second>>

TheManager == Manager(alert_objects, active_alerts, alert_history)

ProcessMetricsCall ==
    \E device \in AlertDevices, metrics \in MetricLists :
        /\ Len(alert_objects) + Len(metrics) <= MaxAlerts
        /\ LET r == ProcessMetrics(TheManager, device, metrics, now, <<>>)
           IN  /\ alert_objects' = r.am.objects
               /\ active_alerts' = r.am.active
               /\ alert_history' = r.am.history
               /\ result' = [op |-> "process_metrics",
                             args |-> <<device, metrics>>,
                             raised |-> "", value |-> r.alerts]
        /\ UNCHANGED <<topologyVars, now>>

\* the ids a caller acknowledges or resolves: those of the alerts created,
\* and one no alert ever had
AlertIds == {alert_objects[i].id : i \in DOMAIN alert_objects} \cup {<<"A", "cpu", 0>>}

AcknowledgeAlertCall ==
    \E alert_id \in AlertIds :
        LET am == AcknowledgeAlert(TheManager, alert_id)
        IN  /\ alert_objects' = am.objects
            /\ active_alerts' = am.active
            /\ alert_history' = am.history
            /\ result' = [op |-> "acknowledge_alert", args |-> <<alert_id>>,
                          raised |-> "", value |-> <<>>]
            /\ UNCHANGED <<topologyVars, now>>

ResolveAlertCall ==
    \E alert_id \in AlertIds :
        LET am == ResolveAlert(TheManager, alert_id)
        IN  /\ alert_objects' = am.objects
            /\ active_alerts' = am.active
            /\ alert_history' = am.history
            /\ result' = [op |-> "resolve_alert", args |-> <<alert_id>>,
                          raised |-> "", value |-> <<>>]
            /\ UNCHANGED <<topologyVars, now>>

\* a second passes
AlertTick ==
    /\ now < MaxAlertTime
    /\ now' = now + 1
    /\ UNCHANGED <<topologyVars, result, alert_objects, active_alerts,
                   alert_history>>

NextAlerts ==
    \/ ProcessMetricsCall
    \/ AcknowledgeAlertCall
    \/ ResolveAlertCall
    \/ AlertTick

SpecAlerts == Init /\ [][NextAlerts]_vars

(***************************************************************************)
(* C25                                                                     *)
(***************************************************************************)
\* the value is at or above the threshold, which is set
AtOrAbove(value, threshold) == threshold # Absent /\ value >= threshold[1]

\* the metrics of the list that are at or above one of their thresholds
Alerting(metrics) ==
    SelectSeq(metrics, LAMBDA m : \/ AtOrAbove(m.value, m.threshold_warning)
                                  \/ AtOrAbove(m.value, m.threshold_critical))

C26_FailedCycleKeepsLastUpdate ==
    [][(pc = "finish" /\ pc' = "returned" /\ log # {})
       => /\ last_update' = last_update
          /\ ~Gated(now)']_vars

(***************************************************************************)
(* C27                                                                     *)
(***************************************************************************)
QueryOps == {"get_path", "get_redundant_paths", "get_critical_links",
             "get_topology_changes", "export_topology"}

\* C27: a call of get_path, get_redundant_paths, get_critical_links,
\* get_topology_changes or export_topology, whatever it is called with and
\* whether it returns or raises, leaves the published graph, the layer graphs,
\* the history and last_update as they were
C27_QueriesReadOnly ==
    [][(result.op = "none" /\ result'.op \in QueryOps)
       => /\ topology' = topology
          /\ layer2_topology' = layer2_topology
          /\ layer3_topology' = layer3_topology
          /\ history' = history
          /\ last_update' = last_update]_vars

\* get_topology_changes has returned the one record of the history of a
\* published graph with links
C27_Witness ==
    /\ result.op = "get_topology_changes"
    /\ result.raised = ""
    /\ Len(result.value) = 1
    /\ Len(history) = 1
    /\ DOMAIN topology.edges # {}
    /\ DOMAIN layer2_topology.edges # {}
    /\ last_update = UpdateInterval

(***************************************************************************)
(* C28                                                                     *)
(***************************************************************************)
\* C28: once a cycle that was not gated has merged (its duplicate-merge pass
\* included), and until the next cycle starts, the nodes of the unified graph
\* are the nodes of the two layer graphs and its linked node pairs are the
\* linked pairs of the two layer graphs
C28_UnifiedIsUnionOfLayers ==
    pc \in {"detect", "finish", "returned"}
    => /\ NodeSet(topology) =
            NodeSet(layer2_topology) \cup NodeSet(layer3_topology)
       /\ DOMAIN topology.edges =
            DOMAIN layer2_topology.edges \cup DOMAIN layer3_topology.edges

\* a cycle has merged two layer graphs that share one linked pair and differ
\* in another, and its duplicate-merge pass has raised
C28_Witness ==
    /\ CycleBuilt
    /\ MergeFailed
    /\ DOMAIN layer2_topology.edges \cap DOMAIN layer3_topology.edges # {}
    /\ DOMAIN layer2_topology.edges \ DOMAIN layer3_topology.edges # {}
    /\ NodeSet(layer3_topology) # NodeSet(topology)

(***************************************************************************)
(* C29                                                                     *)
(***************************************************************************)
\* the node pairs of the forwarding ports among the answers f of the
\* spanning-tree probes
ForwardingPairs(f) ==
    UNION {{{Devices[i], f[i].recs[k].neighbor_bridge} :
                k \in {j \in DOMAIN f[i].recs : f[i].recs[j].state = "forwarding"}} :
           i \in {j \in DOMAIN Devices : ~f[j].raised}}

\* C29: the spanning-tree discovery adds to the L2 graph the links of the
\* ports that are forwarding, with their end nodes, and nothing else: a port
\* in another state adds no node and no edge to the L2 graph, the L3 graph
\* or the unified graph
C29_OnlyForwardingPortsLink ==
    [][(pc = "stp" /\ pc' = "routing")
       => LET pairs == ForwardingPairs(probed'["stp"])
          IN  /\ DOMAIN layer2_topology'.edges =
                    DOMAIN layer2_topology.edges \cup pairs
              /\ NodeSet(layer2_topology') =
                    NodeSet(layer2_topology) \cup UNION pairs
              /\ layer3_topology' = layer3_topology
              /\ topology' = topology]_vars

\* the spanning-tree probe of C has reported a blocking port towards B, and
\* C is no node of the L2 graph, which holds the link A-B
C29_Witness ==
    /\ pc = "routing"
    /\ probed["stp"][3] = Returns(<<Port("blocking", "B", "eth3", "eth2")>>)
    /\ "C" \notin NodeSet(layer2_topology)
    /\ {"A", "B"} \in DOMAIN layer2_topology.edges
    /\ NodeSet(layer3_topology) = {}

(***************************************************************************)
(* C30                                                                     *)
(***************************************************************************)
\* the Alert object active under the id
ActiveAlert(alert_id) ==
    active_alerts[CHOOSE i \in DOMAIN active_alerts :
                    active_alerts[i].key = alert_id].alert

InHistory(alert) == \E j \in DOMAIN alert_history : alert_history[j] = alert

\* no active alert is resolved, and every active alert is in the history
ActiveAlertsSound ==
    \A i \in DOMAIN active_alerts :
        /\ alert_objects[active_alerts[i].alert].status # RESOLVED
        /\ InHistory(active_alerts[i].alert)

\* a call of resolve_alert or acknowledge_alert is made
ResolveStep == result'.op = "resolve_alert" /\ now' = now
AcknowledgeStep == result'.op = "acknowledge_alert" /\ now' = now

\* C30: resolve_alert on an active id makes the alert RESOLVED, takes it
\* (and only it) out of the active alerts and appends it to the history;
\* resolve_alert and acknowledge_alert on an id that is not active leave the
\* active alerts, the history and every alert as they are; at all times no
\* active alert is RESOLVED and every active alert is in the history
C30_ResolveArchivesAlert ==
    /\ []ActiveAlertsSound
    /\ [][/\ (ResolveStep /\ IsActive(active_alerts, result'.args[1]))
             => LET alert_id == result'.args[1]
                    alert == ActiveAlert(alert_id)
                IN  /\ alert_objects'[alert].status = RESOLVED
                    /\ active_alerts' =
                         SelectSeq(active_alerts, LAMBDA item : item.key # alert_id)
                    /\ alert_history' = Append(alert_history, alert)
          /\ ((ResolveStep \/ AcknowledgeStep)
                /\ ~IsActive(active_alerts, result'.args[1]))
             => /\ active_alerts' = active_alerts
                /\ alert_history' = alert_history
                /\ alert_objects' = alert_objects]_vars

\* resolve_alert has resolved one of two active alerts: it is RESOLVED, no
\* longer active and twice in the history, and the other alert is still active
C30_Witness ==
    /\ result.op = "resolve_alert"
    /\ ~IsActive(active_alerts, result.args[1])
    /\ Len(active_alerts) = 1
    /\ \E i \in DOMAIN alert_objects :
         /\ alert_objects[i].id = result.args[1]
         /\ alert_objects[i].status = RESOLVED
         /\ Cardinality({j \in DOMAIN alert_history : alert_history[j] = i}) = 2

====
